---------------------------- MODULE Spec2Model ----------------------------
(***************************************************************************)
(* Causal-length CRDTs (Register, Set, Map) of the causal-length crate.    *)
(* The operators below are translated from src/src/register.rs,            *)
(* src/src/set.rs and src/src/map.rs.  A Register is a record              *)
(* [item, tag, length]; a Map is a function from its stored keys to        *)
(* Registers; a Set is a function from its stored members to SubRegisters  *)
(* [tag, length].  Option values are sequences: None is <<>>, Some(x) is   *)
(* <<x>>.                                                                  *)
(***************************************************************************)
EXTENDS Integers, Sequences, FiniteSets, TLC

----------------------------------------------------------------------------
(* Bounds of the model *)

\* largest value / item (values are integers, ordered as V: Ord)
MaxVal == 1
\* largest tag; the default (minimum) tag is 0
MaxTag == 1
\* largest causal length of the registers and deltas drawn as inputs
MaxLen == 3
\* largest causal length a local operation may reach; an insert, add or
\* remove that would exceed it is disabled
MaxLocalLen == 5
\* largest number of repeated calls of one operation
MaxCalls == 3

Keys == {"foo", "bar"}
Vals == 0 .. MaxVal
Tags == 0 .. MaxTag
Lens == 0 .. MaxLen

\* Tag::default(), T::default() and CL::default() of the integer types
DefaultTag == 0

None == <<>>
Some(x) == <<x>>

Max(x, y) == IF x >= y THEN x ELSE y
IsOdd(n) == n % 2 = 1
IsEven(n) == n % 2 = 0

----------------------------------------------------------------------------
(* Register: src/src/register.rs *)

RegMake(item, tag, length) == [item |-> item, tag |-> tag, length |-> length]

RegNew(item, tag) == RegMake(item, tag, 1)

\* #[derive(Default)]: every field at its type's default
RegDefault == RegMake(0, DefaultTag, 0)

RegGet(r) == IF IsOdd(r.length) THEN Some(<<r.item, r.tag>>) ELSE None

\* RegSet that adds one to the length whatever its parity
RegSet_SingleStep(r, item, tag) ==
    [item   |-> item,
     tag    |-> Max(r.tag, tag),
     length |-> r.length + 1]

RegSet(r, item, tag) ==
    [item   |-> item,
     tag    |-> Max(r.tag, tag),
     length |-> IF IsOdd(r.length) THEN r.length + 1 + 1 ELSE r.length + 1]

\* RegClear that raises the tag whatever the parity of the length
RegClear_TagAlways(r, tag) ==
    IF IsOdd(r.length)
      THEN [r EXCEPT !.length = r.length + 1, !.tag = Max(r.tag, tag)]
      ELSE [r EXCEPT !.tag = Max(r.tag, tag)]

RegClear(r, tag) ==
    IF IsOdd(r.length)
      THEN [r EXCEPT !.length = r.length + 1, !.tag = Max(r.tag, tag)]
      ELSE r

\* RegMergeTieless that adopts every longer `other`, live or not
RegMergeTieless_AdoptsAnyLonger(self, other) ==
    IF other.length > self.length
      THEN [self EXCEPT !.item = other.item, !.tag = other.tag]
      ELSE self

\* first `if` of Register::merge: a longer, live `other` is adopted
RegMergeTieless(self, other) ==
    IF other.length > self.length /\ IsOdd(other.length)
      THEN [self EXCEPT !.item = other.item, !.tag = other.tag]
      ELSE self

\* RegMergeTie without the `else if` arm that orders equal tags by item
RegMergeTie_NoItemOrder(s1, other) ==
    IF other.length = s1.length /\ other.tag > s1.tag
      THEN [s1 EXCEPT !.item = other.item, !.tag = Max(s1.tag, other.tag)]
      ELSE s1

\* RegMergeTie with the tag assignment of the higher-tag arm left out
RegMergeTie_KeepsTag(s1, other) ==
    IF other.length = s1.length
      THEN IF other.tag > s1.tag
             THEN [s1 EXCEPT !.item = other.item]
             ELSE IF other.tag = s1.tag /\ other.item > s1.item
                    THEN [s1 EXCEPT !.item = other.item]
                    ELSE s1
      ELSE s1

\* second `if` of Register::merge: equal lengths, decided by tag, then item
RegMergeTie(s1, other) ==
    IF other.length = s1.length
      THEN IF other.tag > s1.tag
             THEN [s1 EXCEPT !.item = other.item, !.tag = Max(s1.tag, other.tag)]
             ELSE IF other.tag = s1.tag /\ other.item > s1.item
                    THEN [s1 EXCEPT !.item = other.item]
                    ELSE s1
      ELSE s1

\* RegMerge that ends with `self.length = other.length`
RegMerge_TakesOtherLength(self, other) ==
    LET s1 == RegMergeTieless(self, other)
        s2 == RegMergeTie(s1, other)
    IN  [s2 EXCEPT !.length = other.length]

RegMerge(self, other) ==
    LET s1 == RegMergeTieless(self, other)
        s2 == RegMergeTie(s1, other)
    IN  [s2 EXCEPT !.length = Max(s2.length, other.length)]

Regs == [item : Vals, tag : Tags, length : Lens]

Reverse(xs) == [i \in 1 .. Len(xs) |-> xs[Len(xs) + 1 - i]]

\* xs.iter().fold(acc, merge) of the register tests
RECURSIVE RegFold(_, _)
RegFold(acc, xs) ==
    IF xs = <<>> THEN acc ELSE RegFold(RegMerge(acc, Head(xs)), Tail(xs))

----------------------------------------------------------------------------
(* Map: src/src/map.rs *)

MapNew == [k \in {} |-> RegDefault]

MapPut(m, key, reg) ==
    [k \in (DOMAIN m) \cup {key} |-> IF k = key THEN reg ELSE m[k]]

MapGet(m, key) ==
    IF key \in DOMAIN m
      THEN IF IsOdd(m[key].length) THEN Some(<<m[key].item, m[key].tag>>) ELSE None
      ELSE None

MapContains(m, key) == MapGet(m, key) # None

\* MapInsertOccupied that leaves an even length as it is
MapInsertOccupied_NoResurrect(oe, value, tag) ==
    [item   |-> value,
     tag    |-> Max(oe.tag, tag),
     length |-> IF IsOdd(oe.length) /\ oe.item # value THEN oe.length + 1 + 1
                ELSE oe.length]

\* MapInsertOccupied that adds one, not two, when the value differs
MapInsertOccupied_OverwriteByOne(oe, value, tag) ==
    [item   |-> value,
     tag    |-> Max(oe.tag, tag),
     length |-> IF IsEven(oe.length) THEN oe.length + 1
                ELSE IF oe.item # value THEN oe.length + 1
                ELSE oe.length]

\* MapInsertOccupied that starts a new generation on every insert of a live key
MapInsertOccupied_AlwaysNewGeneration(oe, value, tag) ==
    [item   |-> value,
     tag    |-> Max(oe.tag, tag),
     length |-> IF IsEven(oe.length) THEN oe.length + 1
                ELSE oe.length + 1 + 1]

\* the occupied arm of Map::insert
MapInsertOccupied(oe, value, tag) ==
    [item   |-> value,
     tag    |-> Max(oe.tag, tag),
     length |-> IF IsEven(oe.length) THEN oe.length + 1
                ELSE IF oe.item # value THEN oe.length + 1 + 1
                ELSE oe.length]

MapInsert(m, key, value, tag) ==
    IF key \in DOMAIN m
      THEN MapPut(m, key, MapInsertOccupied(m[key], value, tag))
      ELSE MapPut(m, key, RegMake(value, tag, 1))

MapInsertRet(m, key, value, tag) ==
    IF key \in DOMAIN m
      THEN Some(<<m[key].item, Max(m[key].tag, tag)>>)
      ELSE None

\* the occupied arm of Map::remove
MapRemoveOccupied(oe, tag) ==
    [item   |-> oe.item,
     tag    |-> Max(oe.tag, tag),
     length |-> IF IsOdd(oe.length) THEN oe.length + 1 ELSE oe.length]

\* MapRemove that deletes the entry of a live key
MapRemove_Deletes(m, key, tag) ==
    IF key \in DOMAIN m /\ IsOdd(m[key].length)
      THEN [k \in (DOMAIN m) \ {key} |-> m[k]]
      ELSE m

\* MapRemove that stores a tombstone for a key that has no entry
MapRemove_Upsert(m, key, tag) ==
    IF key \in DOMAIN m
      THEN MapPut(m, key, MapRemoveOccupied(m[key], tag))
      ELSE MapPut(m, key, RegMake(0, tag, 1 + 1))

MapRemove(m, key, tag) ==
    IF key \in DOMAIN m
      THEN MapPut(m, key, MapRemoveOccupied(m[key], tag))
      ELSE m

MapRemoveRet(m, key, tag) ==
    IF key \in DOMAIN m /\ IsOdd(m[key].length)
      THEN Some(<<m[key].item, Max(m[key].tag, tag)>>)
      ELSE None

\* MapIter without the filter on the parity of the length
MapIter_AllStored(m) ==
    { <<k, m[k].item, m[k].tag>> : k \in DOMAIN m }

MapIter(m) ==
    { <<k, m[k].item, m[k].tag>> : k \in { j \in DOMAIN m : IsOdd(m[j].length) } }

MapRegisterIter(m) ==
    { RegMake(<<k, m[k].item>>, m[k].tag, m[k].length) : k \in DOMAIN m }

\* MapMergeRegister that also ignores an even delta whose tag equals min_tag
MapMergeRegister_FilterAtHorizon(m, delta, min_tag) ==
    IF IsEven(delta.length) /\ delta.tag <= min_tag
      THEN m
      ELSE LET key == delta.item[1]
               reg == RegMake(delta.item[2], delta.tag, delta.length)
           IN  IF key \in DOMAIN m
                 THEN MapPut(m, key, RegMerge(m[key], reg))
                 ELSE MapPut(m, key, reg)

\* MapMergeRegister that filters by the tag alone, whatever the length
MapMergeRegister_IgnoresParity(m, delta, min_tag) ==
    IF delta.tag < min_tag
      THEN m
      ELSE LET key == delta.item[1]
               reg == RegMake(delta.item[2], delta.tag, delta.length)
           IN  IF key \in DOMAIN m
                 THEN MapPut(m, key, RegMerge(m[key], reg))
                 ELSE MapPut(m, key, reg)

MapMergeRegister(m, delta, min_tag) ==
    IF IsEven(delta.length) /\ delta.tag < min_tag
      THEN m
      ELSE LET key == delta.item[1]
               reg == RegMake(delta.item[2], delta.tag, delta.length)
           IN  IF key \in DOMAIN m
                 THEN MapPut(m, key, RegMerge(m[key], reg))
                 ELSE MapPut(m, key, reg)

\* the loop of Map::merge over `deltas`, the rest of other.register_iter()
RECURSIVE MapMergeAll(_, _, _)
MapMergeAll(m, deltas, min_tag) ==
    IF deltas = {}
      THEN m
      ELSE LET delta == CHOOSE d \in deltas : TRUE
           IN  MapMergeAll(MapMergeRegister(m, delta, min_tag),
                           deltas \ {delta}, min_tag)

MapMerge(m, other, min_tag) == MapMergeAll(m, MapRegisterIter(other), min_tag)

\* MapRetain that judges by the tag alone, without looking at the length
MapRetain_IgnoresLength(m, min_tag) ==
    [k \in { j \in DOMAIN m : min_tag < m[j].tag } |-> m[k]]

MapRetain(m, min_tag) ==
    [k \in { j \in DOMAIN m : IsOdd(m[j].length) \/ min_tag < m[j].tag } |-> m[k]]

\* From<Map> for HashMap<K, (V, Tag)>: the live keys with their value and tag
MapIntoHashMap(m) ==
    LET live == { d \in MapRegisterIter(m) : RegGet(d) # None }
    IN  [k \in { d.item[1] : d \in live } |-> <<m[k].item, m[k].tag>>]

----------------------------------------------------------------------------
(* Set: src/src/set.rs *)

SubRegister(tag, length) == [tag |-> tag, length |-> length]

SetNew == [k \in {} |-> SubRegister(DefaultTag, 0)]

SetPut(s, member, sub) ==
    [k \in (DOMAIN s) \cup {member} |-> IF k = member THEN sub ELSE s[k]]

SetGet(s, member) ==
    IF member \in DOMAIN s
      THEN IF IsOdd(s[member].length) THEN Some(s[member].tag) ELSE None
      ELSE None

SetContains(s, member) == SetGet(s, member) # None

\* SetAdd that leaves the length of a stored member as it is
SetAdd_NoResurrect(s, member, tag) ==
    LET e == IF member \in DOMAIN s THEN s[member] ELSE SubRegister(tag, 1)
    IN  SetPut(s, member, SubRegister(Max(e.tag, tag), e.length))

SetAdd(s, member, tag) ==
    LET e == IF member \in DOMAIN s THEN s[member] ELSE SubRegister(tag, 1)
    IN  SetPut(s, member,
               SubRegister(Max(e.tag, tag),
                           IF IsEven(e.length) THEN e.length + 1 ELSE e.length))

SetRemove(s, member, tag) ==
    IF member \in DOMAIN s
      THEN SetPut(s, member,
                  SubRegister(Max(s[member].tag, tag),
                              IF IsOdd(s[member].length)
                                THEN s[member].length + 1
                                ELSE s[member].length))
      ELSE s

SetIter(s) ==
    { <<k, s[k].tag>> : k \in { j \in DOMAIN s : IsOdd(s[j].length) } }

SetRegisterIter(s) ==
    { RegMake(k, s[k].tag, s[k].length) : k \in DOMAIN s }

\* SetMergeRegister taking the tag of the longer side instead of the max tag
SetMergeRegister_TagOfLonger(s, delta, min_tag) ==
    IF IsEven(delta.length) /\ delta.tag < min_tag
      THEN s
      ELSE IF delta.item \in DOMAIN s
             THEN SetPut(s, delta.item,
                         SubRegister(IF delta.length > s[delta.item].length
                                       THEN delta.tag ELSE s[delta.item].tag,
                                     Max(s[delta.item].length, delta.length)))
             ELSE SetPut(s, delta.item, SubRegister(delta.tag, delta.length))

\* SetMergeRegister that also ignores an even delta whose tag equals min_tag
SetMergeRegister_FilterAtHorizon(s, delta, min_tag) ==
    IF IsEven(delta.length) /\ delta.tag <= min_tag
      THEN s
      ELSE IF delta.item \in DOMAIN s
             THEN SetPut(s, delta.item,
                         SubRegister(Max(s[delta.item].tag, delta.tag),
                                     Max(s[delta.item].length, delta.length)))
             ELSE SetPut(s, delta.item, SubRegister(delta.tag, delta.length))

SetMergeRegister(s, delta, min_tag) ==
    IF IsEven(delta.length) /\ delta.tag < min_tag
      THEN s
      ELSE IF delta.item \in DOMAIN s
             THEN SetPut(s, delta.item,
                         SubRegister(Max(s[delta.item].tag, delta.tag),
                                     Max(s[delta.item].length, delta.length)))
             ELSE SetPut(s, delta.item, SubRegister(delta.tag, delta.length))

\* the loop of Set::merge over `deltas`, the rest of other.register_iter()
RECURSIVE SetMergeAll(_, _, _)
SetMergeAll(s, deltas, min_tag) ==
    IF deltas = {}
      THEN s
      ELSE LET delta == CHOOSE d \in deltas : TRUE
           IN  SetMergeAll(SetMergeRegister(s, delta, min_tag),
                           deltas \ {delta}, min_tag)

SetMerge(s, other, min_tag) == SetMergeAll(s, SetRegisterIter(other), min_tag)

SetRetain(s, min_tag) ==
    [k \in { j \in DOMAIN s : IsOdd(s[j].length) \/ min_tag < s[j].tag } |-> s[k]]

----------------------------------------------------------------------------
(* Folding lists of deltas, as the tests of map.rs and set.rs do *)

\* the deltas of a Map<K, V>: Register<(K, V), Tag, CL>
MapDeltas == [item : Keys \X Vals, tag : Tags, length : Lens]

\* the deltas of a Set<T>: Register<T, Tag, CL>
SetDeltas == [item : Keys, tag : Tags, length : Lens]

\* tests::merge of map.rs, folded over xs: merge_register one delta at a time
RECURSIVE MapFold(_, _, _)
MapFold(acc, xs, min_tag) ==
    IF xs = <<>>
      THEN acc
      ELSE MapFold(MapMergeRegister(acc, Head(xs), min_tag), Tail(xs), min_tag)

\* the loop of tests::test_order_independence of set.rs
RECURSIVE SetFold(_, _, _)
SetFold(acc, xs, min_tag) ==
    IF xs = <<>>
      THEN acc
      ELSE SetFold(SetMergeRegister(acc, Head(xs), min_tag), Tail(xs), min_tag)

\* the orders a shuffle of n elements can produce
Perms(n) == { p \in [1 .. n -> 1 .. n] : \A i, j \in 1 .. n : p[i] = p[j] => i = j }
Permute(xs, p) == [i \in 1 .. Len(xs) |-> xs[p[i]]]

\* a position of each delta in a fixed enumeration of MapDeltas
DeltaRank(d) ==
    (((IF d.item[1] = "foo" THEN 0 ELSE 1) * (MaxVal + 1) + d.item[2])
        * (MaxTag + 1) + d.tag) * (MaxLen + 1) + d.length

\* a position of each delta in a fixed enumeration of SetDeltas
SetDeltaRank(d) ==
    ((IF d.item = "foo" THEN 0 ELSE 1) * (MaxTag + 1) + d.tag) * (MaxLen + 1)
        + d.length

----------------------------------------------------------------------------
(* The std HashMap that tests::simple_model runs beside the Map *)

PlainInsert(h, key, value) ==
    [k \in (DOMAIN h) \cup {key} |-> IF k = key THEN value ELSE h[k]]

PlainRemove(h, key) == [k \in (DOMAIN h) \ {key} |-> h[k]]

PlainGet(h, key) == IF key \in DOMAIN h THEN Some(h[key]) ELSE None

\* implementation.get(&k).map(|i| i.0)
GetValue(m, key) ==
    IF MapGet(m, key) = None THEN None ELSE Some(MapGet(m, key)[1][1])

----------------------------------------------------------------------------
(* State *)

VARIABLES
    mapA,    \* a Map replica
    mapB,    \* a second Map replica
    setA,    \* a Set replica
    setB,    \* a second Set replica
    twinSetA, \* Set replica A in a second execution of the same schedule
    twinSetB, \* Set replica B in a second execution of the same schedule
    twinA,   \* replica A in a second execution of the same schedule
    twinB,   \* replica B in a second execution of the same schedule
    model,   \* the plain key-value map of tests::simple_model
    ra,      \* Register inputs
    rb,
    rc,
    reg,     \* a Register accumulator
    deltas,  \* the list of deltas a fold is given
    minTag,  \* the min_tag used by every merge of a fold
    sync,    \* which merges have run since the last local operation
    out,     \* what the last step computed or returned
    pc       \* the last step taken

vars == <<mapA, mapB, setA, setB, twinSetA, twinSetB, twinA, twinB, model,
          ra, rb, rc, reg, deltas, minTag, sync, out, pc>>

mapVars == <<mapA, mapB, twinA, twinB, model>>
setRest == <<setB, twinSetA, twinSetB>>
setVars == <<setA, setB, twinSetA, twinSetB>>
regVars == <<ra, rb, rc, reg>>
foldVars == <<deltas, minTag>>

\* the state right after construction of every object
InitMaps == /\ mapA = MapNew /\ mapB = MapNew
            /\ twinA = MapNew /\ twinB = MapNew
            /\ model = MapNew
InitSets == /\ setA = SetNew /\ setB = SetNew
            /\ twinSetA = SetNew /\ twinSetB = SetNew
InitRegs == /\ ra = RegDefault /\ rb = RegDefault /\ rc = RegDefault
            /\ reg = RegDefault
InitFold == deltas = <<>> /\ minTag = DefaultTag
InitCtl  == sync = "none" /\ out = None /\ pc = "init"

----------------------------------------------------------------------------
(* SpecRegister: Register::merge applied to registers a, b, c drawn from    *)
(* Regs, the registers quickcheck's Arbitrary builds with Register::make.   *)

InitRegister ==
    /\ ra \in Regs /\ rb \in Regs /\ rc \in Regs
    /\ reg = RegDefault
    /\ InitMaps /\ InitSets /\ InitFold /\ InitCtl

\* a.merge(b) once and twice; the same delta merged into a Map holding a
\* under key "foo", once and twice
MergeTwice ==
    /\ pc = "init"
    /\ \E t \in Tags :
         LET m     == MapPut(MapNew, "foo", ra)
             delta == RegMake(<<"foo", rb.item>>, rb.tag, rb.length)
             m1    == MapMergeRegister(m, delta, t)
         IN  out' = [once     |-> RegMerge(ra, rb),
                     twice    |-> RegMerge(RegMerge(ra, rb), rb),
                     mapOnce  |-> m1,
                     mapTwice |-> MapMergeRegister(m1, delta, t)]
    /\ pc' = "twice"
    /\ UNCHANGED <<mapVars, setVars, regVars, foldVars, sync>>

\* a.merge(b) and b.merge(a)
MergeBothWays ==
    /\ pc = "init"
    /\ out' = [ab |-> RegMerge(ra, rb), ba |-> RegMerge(rb, ra)]
    /\ pc' = "bothways"
    /\ UNCHANGED <<mapVars, setVars, regVars, foldVars, sync>>

\* a.merge(b.merge(c)) and a.merge(b).merge(c)
MergeGrouped ==
    /\ pc = "init"
    /\ out' = [nested |-> RegMerge(ra, RegMerge(rb, rc)),
               flat   |-> RegMerge(RegMerge(ra, rb), rc)]
    /\ pc' = "grouped"
    /\ UNCHANGED <<mapVars, setVars, regVars, foldVars, sync>>

\* the first n of a, b, c folded into a default register from the left
\* (fold) and from the right (rfold)
FoldBothWays ==
    /\ pc = "init"
    /\ \E n \in 0 .. 3 :
         LET xs == SubSeq(<<ra, rb, rc>>, 1, n)
         IN  out' = [xs    |-> xs,
                     left  |-> RegFold(RegDefault, xs),
                     right |-> RegFold(RegDefault, Reverse(xs))]
    /\ pc' = "fold"
    /\ UNCHANGED <<mapVars, setVars, regVars, foldVars, sync>>

NextRegister == MergeTwice \/ MergeBothWays \/ MergeGrouped \/ FoldBothWays

SpecRegister == InitRegister /\ [][NextRegister]_vars

----------------------------------------------------------------------------
(* Claims checked under SpecRegister *)

\* C3: merging b into a twice leaves a with the same (item, tag, length) as
\* merging b once, and applying merge_register(d, min_tag) to a Map twice
\* leaves every stored entry as applying it once does.
C3_MergeIdempotentStored ==
    pc = "twice" => (out.twice = out.once /\ out.mapTwice = out.mapOnce)

\* C4: folding a list of registers into a default register left-to-right
\* and right-to-left yields the same get(), and for two registers a, b the
\* get() of a.merge(b) is that of b.merge(a).
C4_MergeCommutativeVisible ==
    /\ pc = "fold" => RegGet(out.left) = RegGet(out.right)
    /\ pc = "bothways" => RegGet(out.ab) = RegGet(out.ba)

\* a fold of three registers in which a longer dead register arrives between
\* two live ones of one length, and the result is live
C4_Witness ==
    /\ pc = "fold" /\ Len(out.xs) = 3
    /\ IsOdd(ra.length) /\ rb.length > ra.length /\ IsEven(rb.length)
    /\ rc.length > rb.length /\ IsOdd(rc.length)
    /\ RegGet(out.left) = Some(<<rc.item, rc.tag>>)

\* C5: merging into a the register obtained by merging c into b gives the
\* same get() as merging b into a and then c into a.
C5_MergeAssociativeVisible ==
    pc = "grouped" => RegGet(out.nested) = RegGet(out.flat)

\* the three registers are live with one length, so the tie-break decides
C5_Witness ==
    /\ pc = "grouped"
    /\ ra.length = rb.length /\ rb.length = rc.length /\ IsOdd(ra.length)
    /\ rc.tag > rb.tag /\ rb.tag = ra.tag /\ rb.item > ra.item
    /\ RegGet(out.flat) = Some(<<rc.item, rc.tag>>)

----------------------------------------------------------------------------
(* SpecFold: a list of up to three deltas is folded into an empty Map with  *)
(* merge_register under one min_tag, in every order.  The list is drawn in  *)
(* one fixed order of its elements (by DeltaRank); the fold step runs every *)
(* permutation of it.                                                       *)

InitFoldLists ==
    /\ deltas \in { xs \in UNION { [1 .. n -> MapDeltas] : n \in 0 .. 3 } :
                      \A i \in 1 .. Len(xs) - 1 :
                         DeltaRank(xs[i]) <= DeltaRank(xs[i + 1]) }
    /\ minTag \in Tags
    /\ InitMaps /\ InitSets /\ InitRegs /\ InitCtl

\* the list folded into Map::default() in the given order and in every other
FoldMap ==
    /\ pc = "init"
    /\ mapA' = MapFold(MapNew, deltas, minTag)
    /\ out' = [maps |-> { MapFold(MapNew, Permute(deltas, p), minTag) :
                            p \in Perms(Len(deltas)) }]
    /\ pc' = "foldmap"
    /\ UNCHANGED <<mapB, twinA, twinB, model, setVars, regVars, foldVars, sync>>

NextFold == FoldMap

SpecFold == InitFoldLists /\ [][NextFold]_vars

----------------------------------------------------------------------------
(* Claims checked under SpecFold *)

\* C2: folding a list of deltas into an empty Map with merge_register under
\* one min_tag yields the same visible state, the mapping of the live keys to
\* (value, tag), for every permutation of the list.
C2_MapFoldOrderIndependentVisible ==
    pc = "foldmap" =>
        \A m \in out.maps : MapIntoHashMap(m) = MapIntoHashMap(mapA)

\* three deltas of one key: a live one, a longer dead one, a live one longer
\* still; the orders leave one visible state
C2_Witness ==
    /\ pc = "foldmap" /\ Len(deltas) = 3
    /\ \A i \in 1 .. 3 : deltas[i].item[1] = "foo"
    /\ \E i, j, l \in 1 .. 3 :
          /\ IsOdd(deltas[i].length) /\ IsEven(deltas[j].length)
          /\ IsOdd(deltas[l].length)
          /\ deltas[i].length < deltas[j].length
          /\ deltas[j].length < deltas[l].length
          /\ MapGet(mapA, "foo") = Some(<<deltas[l].item[2], deltas[l].tag>>)

----------------------------------------------------------------------------
(* SpecSetFold: a list of up to three deltas is folded with merge_register  *)
(* under one min_tag into a Set that is empty or holds an entry, in every   *)
(* order.                                                                   *)

InitSetFoldLists ==
    /\ deltas \in { xs \in UNION { [1 .. n -> SetDeltas] : n \in 0 .. 3 } :
                      \A i \in 1 .. Len(xs) - 1 :
                         SetDeltaRank(xs[i]) <= SetDeltaRank(xs[i + 1]) }
    /\ minTag \in Tags
    /\ InitMaps /\ InitSets /\ InitRegs /\ InitCtl

\* a Set that add and remove left with an entry for the member "foo",
\* or an empty one
PriorSets ==
    {SetNew}
      \cup { SetAdd(SetNew, "foo", t) : t \in Tags }
      \cup { SetRemove(SetAdd(SetNew, "foo", t), "foo", t) : t \in Tags }

\* the list folded into a Set in the given order and in every other, and
\* each delta of the list applied once more
FoldSet ==
    /\ pc = "init"
    /\ \E prior \in PriorSets :
         LET s == SetFold(prior, deltas, minTag)
         IN  /\ setA' = s
             /\ out' = [prior |-> prior,
                        sets  |-> { SetFold(prior, Permute(deltas, p), minTag) :
                                      p \in Perms(Len(deltas)) },
                        again |-> { SetMergeRegister(s, deltas[i], minTag) :
                                      i \in 1 .. Len(deltas) }]
    /\ pc' = "foldset"
    /\ UNCHANGED <<setRest, mapVars, regVars, foldVars, sync>>

NextSetFold == FoldSet

SpecSetFold == InitSetFoldLists /\ [][NextSetFold]_vars

----------------------------------------------------------------------------
(* Claims checked under SpecSetFold *)

\* the deltas of xs that merge_register does not ignore, for one member
Accepted(xs, member, min_tag) ==
    { i \in 1 .. Len(xs) :
        /\ xs[i].item = member
        /\ ~(IsEven(xs[i].length) /\ xs[i].tag < min_tag) }

MaxOf(S) == CHOOSE x \in S : \A y \in S : y <= x

\* C6: after folding a list of deltas into a Set under one min_tag each
\* stored member's tag and length are the maxima over the prior entry and the
\* accepted deltas of that member; the stored Set is the same for every
\* permutation and re-applying a delta of the list does not change it.
C6_SetMergeIsMaxJoin ==
    pc = "foldset" =>
        /\ DOMAIN setA =
              DOMAIN out.prior
                \cup { deltas[i].item : i \in
                         UNION { Accepted(deltas, mb, minTag) : mb \in Keys } }
        /\ \A mb \in DOMAIN setA :
              LET acc  == Accepted(deltas, mb, minTag)
                  tags == { deltas[i].tag : i \in acc }
                            \cup (IF mb \in DOMAIN out.prior
                                    THEN {out.prior[mb].tag} ELSE {})
                  lens == { deltas[i].length : i \in acc }
                            \cup (IF mb \in DOMAIN out.prior
                                    THEN {out.prior[mb].length} ELSE {})
              IN  /\ setA[mb].tag = MaxOf(tags)
                  /\ setA[mb].length = MaxOf(lens)
        /\ out.sets = {setA}
        /\ out.again \subseteq {setA}

\* a member with a prior entry receives a delta that is ignored and two that
\* are accepted, one raising the tag and one the length
C6_Witness ==
    /\ pc = "foldset" /\ Len(deltas) = 3
    /\ "foo" \in DOMAIN out.prior
    /\ \A i \in 1 .. 3 : deltas[i].item = "foo"
    /\ Cardinality(Accepted(deltas, "foo", minTag)) = 2
    /\ setA["foo"].tag > out.prior["foo"].tag
    /\ setA["foo"].length > out.prior["foo"].length
    /\ \E i, j \in 1 .. 3 :
          /\ deltas[i].tag = setA["foo"].tag
          /\ deltas[i].length < setA["foo"].length
          /\ deltas[j].length = setA["foo"].length
          /\ deltas[j].tag < setA["foo"].tag

----------------------------------------------------------------------------
(* Spec: one replica, a Map or a Set, from construction, under every public *)
(* operation.  A run works on one of the two structures: the operations of  *)
(* the Map are taken while the Set is as constructed, and conversely.  The  *)
(* `other` of merge is a clone of the replica that performed one further    *)
(* local operation; arbitrary remote content arrives through               *)
(* merge_register.                                                          *)

Init == InitMaps /\ InitSets /\ InitRegs /\ InitFold /\ InitCtl

\* no causal length above the bound of the model
MapWithinLen(m) == \A k \in DOMAIN m : m[k].length <= MaxLocalLen
SetWithinLen(s) == \A k \in DOMAIN s : s[k].length <= MaxLocalLen

MapPeers(m) ==
    { p \in { MapInsert(m, k, v, t) : k \in Keys, v \in Vals, t \in Tags }
              \cup { MapRemove(m, k, t) : k \in Keys, t \in Tags }
              \cup { MapRetain(m, t) : t \in Tags } : MapWithinLen(p) }

SetPeers(s) ==
    { p \in { SetAdd(s, k, t) : k \in Keys, t \in Tags }
              \cup { SetRemove(s, k, t) : k \in Keys, t \in Tags }
              \cup { SetRetain(s, t) : t \in Tags } : SetWithinLen(p) }

Insert ==
    /\ setA = SetNew
    /\ \E k \in Keys, v \in Vals, t \in Tags : mapA' = MapInsert(mapA, k, v, t)
    /\ MapWithinLen(mapA')
    /\ pc' = "insert"
    /\ UNCHANGED <<mapB, twinA, twinB, model, setVars, regVars, foldVars, sync, out>>

Remove ==
    /\ setA = SetNew
    /\ \E k \in Keys, t \in Tags : mapA' = MapRemove(mapA, k, t)
    /\ MapWithinLen(mapA')
    /\ pc' = "remove"
    /\ UNCHANGED <<mapB, twinA, twinB, model, setVars, regVars, foldVars, sync, out>>

MergeRegister ==
    /\ setA = SetNew
    /\ \E delta \in MapDeltas, t \in Tags :
          mapA' = MapMergeRegister(mapA, delta, t)
    /\ pc' = "merge_register"
    /\ UNCHANGED <<mapB, twinA, twinB, model, setVars, regVars, foldVars, sync, out>>

Merge ==
    /\ setA = SetNew
    /\ \E other \in MapPeers(mapA), t \in Tags : mapA' = MapMerge(mapA, other, t)
    /\ pc' = "merge"
    /\ UNCHANGED <<mapB, twinA, twinB, model, setVars, regVars, foldVars, sync, out>>

Retain ==
    /\ setA = SetNew
    /\ \E t \in Tags : mapA' = MapRetain(mapA, t)
    /\ pc' = "retain"
    /\ UNCHANGED <<mapB, twinA, twinB, model, setVars, regVars, foldVars, sync, out>>

Add ==
    /\ mapA = MapNew
    /\ \E k \in Keys, t \in Tags : setA' = SetAdd(setA, k, t)
    /\ SetWithinLen(setA')
    /\ pc' = "add"
    /\ UNCHANGED <<setRest, mapVars, regVars, foldVars, sync, out>>

RemoveMember ==
    /\ mapA = MapNew
    /\ \E k \in Keys, t \in Tags : setA' = SetRemove(setA, k, t)
    /\ SetWithinLen(setA')
    /\ pc' = "remove"
    /\ UNCHANGED <<setRest, mapVars, regVars, foldVars, sync, out>>

MergeRegisterSet ==
    /\ mapA = MapNew
    /\ \E delta \in SetDeltas, t \in Tags :
          setA' = SetMergeRegister(setA, delta, t)
    /\ pc' = "merge_register"
    /\ UNCHANGED <<setRest, mapVars, regVars, foldVars, sync, out>>

MergeSet ==
    /\ mapA = MapNew
    /\ \E other \in SetPeers(setA), t \in Tags : setA' = SetMerge(setA, other, t)
    /\ pc' = "merge"
    /\ UNCHANGED <<setRest, mapVars, regVars, foldVars, sync, out>>

RetainSet ==
    /\ mapA = MapNew
    /\ \E t \in Tags : setA' = SetRetain(setA, t)
    /\ pc' = "retain"
    /\ UNCHANGED <<setRest, mapVars, regVars, foldVars, sync, out>>

Next ==
    \/ Insert \/ Remove \/ MergeRegister \/ Merge \/ Retain
    \/ Add \/ RemoveMember \/ MergeRegisterSet \/ MergeSet \/ RetainSet

Spec == Init /\ [][Next]_vars

----------------------------------------------------------------------------
(* Claims checked under Spec *)

\* C7: in every reachable state a Map key or Set member is returned by get,
\* reported by contains and yielded by iter exactly when an entry is stored
\* for it whose causal length is odd; iter yields it once, and yields no key
\* of even length.
C7_ParityInvariant ==
    /\ \A k \in Keys :
          LET live == k \in DOMAIN mapA /\ mapA[k].length % 2 = 1
          IN  /\ (MapGet(mapA, k) # None) <=> live
              /\ MapContains(mapA, k) <=> live
              /\ live => MapGet(mapA, k) = Some(<<mapA[k].item, mapA[k].tag>>)
              /\ { e \in MapIter(mapA) : e[1] = k }
                    = IF live THEN {<<k, mapA[k].item, mapA[k].tag>>} ELSE {}
    /\ \A e \in MapIter(mapA) : e[1] \in Keys
    /\ \A k \in Keys :
          LET live == k \in DOMAIN setA /\ setA[k].length % 2 = 1
          IN  /\ (SetGet(setA, k) # None) <=> live
              /\ SetContains(setA, k) <=> live
              /\ live => SetGet(setA, k) = Some(setA[k].tag)
              /\ { e \in SetIter(setA) : e[1] = k }
                    = IF live THEN {<<k, setA[k].tag>>} ELSE {}
    /\ \A e \in SetIter(setA) : e[1] \in Keys

\* a retain has kept a tombstone of "foo" beside a live "bar"
C7_Witness ==
    /\ pc = "retain"
    /\ DOMAIN mapA = {"foo", "bar"}
    /\ mapA["foo"].length = 2 /\ mapA["bar"].length = 5
    /\ MapGet(mapA, "foo") = None
    /\ MapIter(mapA) = {<<"bar", mapA["bar"].item, mapA["bar"].tag>>}

----------------------------------------------------------------------------
(* SpecModel: tests::simple_model::implementation_matches_model.  One Map   *)
(* and a plain map receive the same Insert, Delete and Get operations; the  *)
(* Map is always given the tag 0.                                           *)

ModelInsert ==
    /\ \E k \in Keys, v \in Vals :
          /\ mapA' = MapInsert(mapA, k, v, 0)
          /\ model' = PlainInsert(model, k, v)
    /\ MapWithinLen(mapA')
    /\ pc' = "insert"
    /\ out' = None
    /\ UNCHANGED <<mapB, twinA, twinB, setVars, regVars, foldVars, sync>>

ModelDelete ==
    /\ \E k \in Keys :
          /\ mapA' = MapRemove(mapA, k, 0)
          /\ model' = PlainRemove(model, k)
    /\ MapWithinLen(mapA')
    /\ pc' = "delete"
    /\ out' = None
    /\ UNCHANGED <<mapB, twinA, twinB, setVars, regVars, foldVars, sync>>

ModelGet ==
    /\ \E k \in Keys :
          out' = [key   |-> k,
                  impl  |-> GetValue(mapA, k),
                  plain |-> PlainGet(model, k)]
    /\ pc' = "get"
    /\ UNCHANGED <<mapVars, setVars, regVars, foldVars, sync>>

NextModel == ModelInsert \/ ModelDelete \/ ModelGet

SpecModel == Init /\ [][NextModel]_vars

----------------------------------------------------------------------------
(* Claims checked under SpecModel *)

\* C8: for any sequence of insert(k, v, 0), remove(k, 0) and get(k) applied
\* to a Map and to a plain map, every get(k) on the Map returns the value the
\* plain map holds for k, and None exactly when the plain map has no entry.
C8_MapRefinesPlainMap ==
    pc = "get" => out.impl = out.plain

\* a get of a key that was inserted, overwritten, removed and inserted again,
\* while the other key is a tombstone
C8_Witness ==
    /\ pc = "get" /\ out.key = "foo"
    /\ out.impl = Some(1)
    /\ mapA["foo"].length = 5
    /\ "bar" \in DOMAIN mapA /\ "bar" \notin DOMAIN model

----------------------------------------------------------------------------
(* SpecSync: two Map replicas A and B that start empty and evolve by local  *)
(* insert and remove and by merging the other replica's current state with  *)
(* min_tag = the default tag, as in tests::test_merge_commutative.  The     *)
(* replicas share the one key of SyncKeys; sync records how far the pair    *)
(* A.merge(B), B.merge(A) has come since the last local operation, and out  *)
(* the two states the pair started from.                                    *)

SyncKeys == {"foo"}

SyncInsertA ==
    /\ \E k \in SyncKeys, v \in Vals, t \in Tags :
          mapA' = MapInsert(mapA, k, v, t)
    /\ MapWithinLen(mapA')
    /\ sync' = "none" /\ out' = None /\ pc' = "insertA"
    /\ UNCHANGED <<mapB, twinA, twinB, model, setVars, regVars, foldVars>>

SyncInsertB ==
    /\ \E k \in SyncKeys, v \in Vals, t \in Tags :
          mapB' = MapInsert(mapB, k, v, t)
    /\ MapWithinLen(mapB')
    /\ sync' = "none" /\ out' = None /\ pc' = "insertB"
    /\ UNCHANGED <<mapA, twinA, twinB, model, setVars, regVars, foldVars>>

SyncRemoveA ==
    /\ \E k \in SyncKeys, t \in Tags : mapA' = MapRemove(mapA, k, t)
    /\ MapWithinLen(mapA')
    /\ sync' = "none" /\ out' = None /\ pc' = "removeA"
    /\ UNCHANGED <<mapB, twinA, twinB, model, setVars, regVars, foldVars>>

SyncRemoveB ==
    /\ \E k \in SyncKeys, t \in Tags : mapB' = MapRemove(mapB, k, t)
    /\ MapWithinLen(mapB')
    /\ sync' = "none" /\ out' = None /\ pc' = "removeB"
    /\ UNCHANGED <<mapA, twinA, twinB, model, setVars, regVars, foldVars>>

\* A.merge(&B, 0)
SyncMergeAB ==
    /\ mapA' = MapMerge(mapA, mapB, DefaultTag)
    /\ sync' = "AB"
    /\ out' = [a |-> mapA, b |-> mapB]
    /\ pc' = "mergeAB"
    /\ UNCHANGED <<mapB, twinA, twinB, model, setVars, regVars, foldVars>>

\* B.merge(&A, 0)
SyncMergeBA ==
    /\ mapB' = MapMerge(mapB, mapA, DefaultTag)
    /\ IF sync = "AB"
         THEN sync' = "ABBA" /\ out' = out
         ELSE sync' = "none" /\ out' = None
    /\ pc' = "mergeBA"
    /\ UNCHANGED <<mapA, twinA, twinB, model, setVars, regVars, foldVars>>

NextSync ==
    \/ SyncInsertA \/ SyncInsertB \/ SyncRemoveA \/ SyncRemoveB
    \/ SyncMergeAB \/ SyncMergeBA

SpecSync == Init /\ [][NextSync]_vars

----------------------------------------------------------------------------
(* Claims checked under SpecSync *)

\* C1: for two Map replicas A and B that start empty and evolve by any
\* interleaving of local insert, remove and merges of the other replica's
\* state with min_tag = 0, A.merge(B, 0) followed by B.merge(A, 0) with no
\* local operation in between leaves A.iter() and B.iter() equal as sets of
\* (key, value, tag).
C1_TwoReplicaConvergence ==
    sync = "ABBA" => MapIter(mapA) = MapIter(mapB)

\* the pair of merges has run from two replicas that both showed the key,
\* with different values written at the same causal length and tag
C1_Witness ==
    /\ sync = "ABBA"
    /\ "foo" \in DOMAIN out.a /\ "foo" \in DOMAIN out.b
    /\ out.a["foo"].length = 3 /\ out.b["foo"].length = 3
    /\ out.a["foo"].tag = out.b["foo"].tag
    /\ out.a["foo"].item < out.b["foo"].item
    /\ MapIter(mapA) = {<<"foo", out.b["foo"].item, out.b["foo"].tag>>}

----------------------------------------------------------------------------
(* SpecRace: two replicas that hold the same Map, the common ancestor, each *)
(* insert one value under the same key without seeing the other's insert,   *)
(* and then merge each other's state with min_tag = the default tag.  out   *)
(* records the key, the ancestor and the arguments of the two inserts.      *)

\* the Maps a replica can hold: any registers under any subset of the keys
Ancestors == UNION { [S -> Regs] : S \in SUBSET Keys }

InitRace ==
    /\ mapA \in Ancestors /\ mapB = mapA
    /\ twinA = MapNew /\ twinB = MapNew /\ model = MapNew
    /\ InitSets /\ InitRegs /\ InitFold
    /\ sync = "none" /\ pc = "ancestor"
    /\ \E k \in Keys : out = [key |-> k, anc |-> mapA, a |-> None, b |-> None]

RaceInsertA ==
    /\ sync = "none" /\ out.a = None
    /\ \E v \in Vals, t \in Tags :
          /\ mapA' = MapInsert(mapA, out.key, v, t)
          /\ out' = [out EXCEPT !.a = Some(<<v, t>>)]
    /\ pc' = "insertA"
    /\ UNCHANGED <<mapB, twinA, twinB, model, setVars, regVars, foldVars, sync>>

RaceInsertB ==
    /\ sync = "none" /\ out.b = None
    /\ \E v \in Vals, t \in Tags :
          /\ mapB' = MapInsert(mapB, out.key, v, t)
          /\ out' = [out EXCEPT !.b = Some(<<v, t>>)]
    /\ pc' = "insertB"
    /\ UNCHANGED <<mapA, twinA, twinB, model, setVars, regVars, foldVars, sync>>

\* A.merge(&B, 0)
RaceMergeAB ==
    /\ out.a # None /\ out.b # None
    /\ sync \in {"none", "BA"}
    /\ mapA' = MapMerge(mapA, mapB, DefaultTag)
    /\ sync' = IF sync = "none" THEN "AB" ELSE "both"
    /\ pc' = "mergeAB"
    /\ UNCHANGED <<mapB, twinA, twinB, model, setVars, regVars, foldVars, out>>

\* B.merge(&A, 0)
RaceMergeBA ==
    /\ out.a # None /\ out.b # None
    /\ sync \in {"none", "AB"}
    /\ mapB' = MapMerge(mapB, mapA, DefaultTag)
    /\ sync' = IF sync = "none" THEN "BA" ELSE "both"
    /\ pc' = "mergeBA"
    /\ UNCHANGED <<mapA, twinA, twinB, model, setVars, regVars, foldVars, out>>

NextRace == RaceInsertA \/ RaceInsertB \/ RaceMergeAB \/ RaceMergeBA

SpecRace == InitRace /\ [][NextRace]_vars

----------------------------------------------------------------------------
(* Claims checked under SpecRace *)

\* the value the two inserts <<v1, t1>> and <<v2, t2>> resolve to: that of
\* the higher tag, and the greater value when the tags are equal
Winner(a, b) ==
    IF a[2] > b[2] THEN a[1]
    ELSE IF b[2] > a[2] THEN b[1]
    ELSE Max(a[1], b[1])

\* C9: starting from a common ancestor that stores no entry for key k, if A
\* performs insert(k, v1, t1) and B concurrently insert(k, v2, t2), then after
\* A.merge(B, 0) and B.merge(A, 0) both replicas return the same get(k): the
\* value with the higher tag, and when t1 = t2 the greater value.
C9_ConflictResolution ==
    (sync = "both" /\ out.key \notin DOMAIN out.anc) =>
        /\ MapGet(mapA, out.key) = MapGet(mapB, out.key)
        /\ GetValue(mapA, out.key) = Some(Winner(out.a[1], out.b[1]))

\* both merges have run after two inserts of different values with one tag,
\* the lower value on A, from an ancestor that stores only the other key
C9_Witness ==
    /\ sync = "both" /\ pc = "mergeBA"
    /\ out.key = "foo" /\ DOMAIN out.anc = {"bar"}
    /\ out.a[1][2] = out.b[1][2]
    /\ out.a[1][1] < out.b[1][1]
    /\ GetValue(mapA, "foo") = Some(out.b[1][1])
    /\ GetValue(mapB, "foo") = Some(out.b[1][1])

----------------------------------------------------------------------------
(* SpecTwin: one schedule of insert, remove and merge (min_tag = the        *)
(* default tag, no retain) run twice on two replicas sharing the key of     *)
(* SyncKeys: mapA and mapB are replicas A and B of the first execution,     *)
(* twinA and twinB those of the second.  Every step applies the same        *)
(* operation with the same key and value to both executions; the tag        *)
(* arguments are chosen independently.                                      *)

TwinInsertA ==
    /\ \E k \in SyncKeys, v \in Vals, t1 \in Tags, t2 \in Tags :
          /\ mapA' = MapInsert(mapA, k, v, t1)
          /\ twinA' = MapInsert(twinA, k, v, t2)
    /\ MapWithinLen(mapA') /\ MapWithinLen(twinA')
    /\ pc' = "insertA"
    /\ UNCHANGED <<mapB, twinB, model, setVars, regVars, foldVars, sync, out>>

TwinInsertB ==
    /\ \E k \in SyncKeys, v \in Vals, t1 \in Tags, t2 \in Tags :
          /\ mapB' = MapInsert(mapB, k, v, t1)
          /\ twinB' = MapInsert(twinB, k, v, t2)
    /\ MapWithinLen(mapB') /\ MapWithinLen(twinB')
    /\ pc' = "insertB"
    /\ UNCHANGED <<mapA, twinA, model, setVars, regVars, foldVars, sync, out>>

TwinRemoveA ==
    /\ \E k \in SyncKeys, t1 \in Tags, t2 \in Tags :
          /\ mapA' = MapRemove(mapA, k, t1)
          /\ twinA' = MapRemove(twinA, k, t2)
    /\ MapWithinLen(mapA') /\ MapWithinLen(twinA')
    /\ pc' = "removeA"
    /\ UNCHANGED <<mapB, twinB, model, setVars, regVars, foldVars, sync, out>>

TwinRemoveB ==
    /\ \E k \in SyncKeys, t1 \in Tags, t2 \in Tags :
          /\ mapB' = MapRemove(mapB, k, t1)
          /\ twinB' = MapRemove(twinB, k, t2)
    /\ MapWithinLen(mapB') /\ MapWithinLen(twinB')
    /\ pc' = "removeB"
    /\ UNCHANGED <<mapA, twinA, model, setVars, regVars, foldVars, sync, out>>

\* A.merge(&B, 0) in both executions
TwinMergeAB ==
    /\ mapA' = MapMerge(mapA, mapB, DefaultTag)
    /\ twinA' = MapMerge(twinA, twinB, DefaultTag)
    /\ pc' = "mergeAB"
    /\ UNCHANGED <<mapB, twinB, model, setVars, regVars, foldVars, sync, out>>

\* B.merge(&A, 0) in both executions
TwinMergeBA ==
    /\ mapB' = MapMerge(mapB, mapA, DefaultTag)
    /\ twinB' = MapMerge(twinB, twinA, DefaultTag)
    /\ pc' = "mergeBA"
    /\ UNCHANGED <<mapA, twinA, model, setVars, regVars, foldVars, sync, out>>

NextTwin ==
    \/ TwinInsertA \/ TwinInsertB \/ TwinRemoveA \/ TwinRemoveB
    \/ TwinMergeAB \/ TwinMergeBA

SpecTwin == Init /\ [][NextTwin]_vars

----------------------------------------------------------------------------
(* Claims checked under SpecTwin *)

\* C10: tags never influence liveness in Map: two executions of one schedule
\* of insert, remove and merge (min_tag = 0, no retain) that use the same
\* keys and values but different tag arguments have, on every replica after
\* every step, the same contains(k) for all k.
C10_TagsNeverInfluenceLiveness ==
    \A k \in SyncKeys :
        /\ MapContains(mapA, k) = MapContains(twinA, k)
        /\ MapContains(mapB, k) = MapContains(twinB, k)

----------------------------------------------------------------------------
(* SpecSetTwin: one schedule of add, remove and merge (min_tag = the        *)
(* default tag, no retain) run twice on two Set replicas sharing the member *)
(* of SyncKeys: setA and setB are replicas A and B of the first execution,  *)
(* twinSetA and twinSetB those of the second.  Every step applies the same  *)
(* operation with the same member to both executions; the tag arguments     *)
(* are chosen independently.                                                *)

TwinAddA ==
    /\ \E k \in SyncKeys, t1 \in Tags, t2 \in Tags :
          /\ setA' = SetAdd(setA, k, t1)
          /\ twinSetA' = SetAdd(twinSetA, k, t2)
    /\ SetWithinLen(setA') /\ SetWithinLen(twinSetA')
    /\ pc' = "addA"
    /\ UNCHANGED <<setB, twinSetB, mapVars, regVars, foldVars, sync, out>>

TwinAddB ==
    /\ \E k \in SyncKeys, t1 \in Tags, t2 \in Tags :
          /\ setB' = SetAdd(setB, k, t1)
          /\ twinSetB' = SetAdd(twinSetB, k, t2)
    /\ SetWithinLen(setB') /\ SetWithinLen(twinSetB')
    /\ pc' = "addB"
    /\ UNCHANGED <<setA, twinSetA, mapVars, regVars, foldVars, sync, out>>

TwinRemoveMemberA ==
    /\ \E k \in SyncKeys, t1 \in Tags, t2 \in Tags :
          /\ setA' = SetRemove(setA, k, t1)
          /\ twinSetA' = SetRemove(twinSetA, k, t2)
    /\ SetWithinLen(setA') /\ SetWithinLen(twinSetA')
    /\ pc' = "removeA"
    /\ UNCHANGED <<setB, twinSetB, mapVars, regVars, foldVars, sync, out>>

TwinRemoveMemberB ==
    /\ \E k \in SyncKeys, t1 \in Tags, t2 \in Tags :
          /\ setB' = SetRemove(setB, k, t1)
          /\ twinSetB' = SetRemove(twinSetB, k, t2)
    /\ SetWithinLen(setB') /\ SetWithinLen(twinSetB')
    /\ pc' = "removeB"
    /\ UNCHANGED <<setA, twinSetA, mapVars, regVars, foldVars, sync, out>>

\* A.merge(&B, 0) in both executions
TwinMergeSetAB ==
    /\ setA' = SetMerge(setA, setB, DefaultTag)
    /\ twinSetA' = SetMerge(twinSetA, twinSetB, DefaultTag)
    /\ pc' = "mergeAB"
    /\ UNCHANGED <<setB, twinSetB, mapVars, regVars, foldVars, sync, out>>

\* B.merge(&A, 0) in both executions
TwinMergeSetBA ==
    /\ setB' = SetMerge(setB, setA, DefaultTag)
    /\ twinSetB' = SetMerge(twinSetB, twinSetA, DefaultTag)
    /\ pc' = "mergeBA"
    /\ UNCHANGED <<setA, twinSetA, mapVars, regVars, foldVars, sync, out>>

NextSetTwin ==
    \/ TwinAddA \/ TwinAddB \/ TwinRemoveMemberA \/ TwinRemoveMemberB
    \/ TwinMergeSetAB \/ TwinMergeSetBA

SpecSetTwin == Init /\ [][NextSetTwin]_vars

----------------------------------------------------------------------------
(* Claims checked under SpecSetTwin *)

\* the stored members, their causal lengths and contains() agree
SameLengths(s1, s2) ==
    /\ DOMAIN s1 = DOMAIN s2
    /\ \A mb \in DOMAIN s1 : s1[mb].length = s2[mb].length
    /\ \A mb \in SyncKeys : SetContains(s1, mb) = SetContains(s2, mb)

\* C11: Set uses the tag only for garbage collection: two executions of one
\* schedule of add, remove and merge (min_tag = 0, no retain) that use the
\* same members but different tag arguments have, on every replica after
\* every step, the same stored causal length for every member and the same
\* contains(member).
C11_SetTagsNeverInfluenceLength ==
    SameLengths(setA, twinSetA) /\ SameLengths(setB, twinSetB)

\* a merge has carried a removal to replica A in two executions whose stored
\* tags differ on both replicas
C11_Witness ==
    /\ pc = "mergeAB"
    /\ "foo" \in DOMAIN setA /\ "foo" \in DOMAIN setB
    /\ setA["foo"].length = 4 /\ twinSetA["foo"].length = 4
    /\ setA["foo"].tag # twinSetA["foo"].tag
    /\ setB["foo"].tag # twinSetB["foo"].tag

----------------------------------------------------------------------------
(* SpecOps: one operation applied to a Map or a Set in any state it can     *)
(* hold.  out records the operation's arguments, the state before the call  *)
(* and what the call returned.  After a Map::retain, StaleMerge re-delivers *)
(* a tombstone delta of a key that the retain has purged.                   *)

\* the Sets a replica can hold: any SubRegisters under any subset of members
SetStates == UNION { [S -> [tag : Tags, length : Lens]] : S \in SUBSET Keys }

InitOps ==
    /\ \/ mapA \in Ancestors /\ setA = SetNew
       \/ mapA = MapNew /\ setA \in SetStates
    /\ mapB = MapNew /\ twinA = MapNew /\ twinB = MapNew /\ model = MapNew
    /\ setB = SetNew /\ twinSetA = SetNew /\ twinSetB = SetNew
    /\ InitRegs /\ InitFold /\ InitCtl

OpInsert ==
    /\ pc = "init" /\ setA = SetNew
    /\ \E k \in Keys, v \in Vals, t \in Tags :
          /\ mapA' = MapInsert(mapA, k, v, t)
          /\ out' = [before |-> mapA, key |-> k, value |-> v, tag |-> t,
                     ret |-> MapInsertRet(mapA, k, v, t)]
    /\ pc' = "insert"
    /\ UNCHANGED <<mapB, twinA, twinB, model, setVars, regVars, foldVars, sync>>

OpRemove ==
    /\ pc = "init" /\ setA = SetNew
    /\ \E k \in Keys, t \in Tags :
          /\ mapA' = MapRemove(mapA, k, t)
          /\ out' = [before |-> mapA, key |-> k, tag |-> t,
                     ret |-> MapRemoveRet(mapA, k, t)]
    /\ pc' = "remove"
    /\ UNCHANGED <<mapB, twinA, twinB, model, setVars, regVars, foldVars, sync>>

OpGet ==
    /\ pc = "init" /\ setA = SetNew
    /\ \E k \in Keys :
          out' = [before |-> mapA, key |-> k, ret |-> MapGet(mapA, k)]
    /\ pc' = "get"
    /\ UNCHANGED <<mapVars, setVars, regVars, foldVars, sync>>

OpContains ==
    /\ pc = "init" /\ setA = SetNew
    /\ \E k \in Keys :
          out' = [before |-> mapA, key |-> k, ret |-> MapContains(mapA, k)]
    /\ pc' = "contains"
    /\ UNCHANGED <<mapVars, setVars, regVars, foldVars, sync>>

OpMergeRegister ==
    /\ pc = "init" /\ setA = SetNew
    /\ \E delta \in MapDeltas, t \in Tags :
          /\ mapA' = MapMergeRegister(mapA, delta, t)
          /\ out' = [before |-> mapA, delta |-> delta, min_tag |-> t]
    /\ pc' = "merge_register"
    /\ UNCHANGED <<mapB, twinA, twinB, model, setVars, regVars, foldVars, sync>>

OpRetain ==
    /\ pc = "init" /\ setA = SetNew
    /\ \E t \in Tags :
          /\ mapA' = MapRetain(mapA, t)
          /\ out' = [before |-> mapA, min_tag |-> t]
    /\ pc' = "retain"
    /\ UNCHANGED <<mapB, twinA, twinB, model, setVars, regVars, foldVars, sync>>

\* merge_register of an even-length delta for a key the retain has just
\* purged, carrying the tag the purged tombstone had
StaleMerge ==
    /\ pc = "retain"
    /\ \E k \in (DOMAIN out.before) \ (DOMAIN mapA), v \in Vals,
         l \in { n \in Lens : IsEven(n) }, t \in Tags :
          LET delta == RegMake(<<k, v>>, out.before[k].tag, l)
          IN  /\ mapA' = MapMergeRegister(mapA, delta, t)
              /\ out' = [before |-> mapA, delta |-> delta, min_tag |-> t,
                         horizon |-> out.min_tag]
    /\ pc' = "stale"
    /\ UNCHANGED <<mapB, twinA, twinB, model, setVars, regVars, foldVars, sync>>

OpAdd ==
    /\ pc = "init" /\ mapA = MapNew
    /\ \E k \in Keys, t \in Tags :
          /\ setA' = SetAdd(setA, k, t)
          /\ out' = [before |-> setA, key |-> k, tag |-> t]
    /\ pc' = "add"
    /\ UNCHANGED <<setRest, mapVars, regVars, foldVars, sync>>

OpRemoveMember ==
    /\ pc = "init" /\ mapA = MapNew
    /\ \E k \in Keys, t \in Tags :
          /\ setA' = SetRemove(setA, k, t)
          /\ out' = [before |-> setA, key |-> k, tag |-> t]
    /\ pc' = "remove_member"
    /\ UNCHANGED <<setRest, mapVars, regVars, foldVars, sync>>

OpGetMember ==
    /\ pc = "init" /\ mapA = MapNew
    /\ \E k \in Keys :
          out' = [before |-> setA, key |-> k, ret |-> SetGet(setA, k)]
    /\ pc' = "get_member"
    /\ UNCHANGED <<mapVars, setVars, regVars, foldVars, sync>>

OpContainsMember ==
    /\ pc = "init" /\ mapA = MapNew
    /\ \E k \in Keys :
          out' = [before |-> setA, key |-> k, ret |-> SetContains(setA, k)]
    /\ pc' = "contains_member"
    /\ UNCHANGED <<mapVars, setVars, regVars, foldVars, sync>>

OpMergeRegisterSet ==
    /\ pc = "init" /\ mapA = MapNew
    /\ \E delta \in SetDeltas, t \in Tags :
          /\ setA' = SetMergeRegister(setA, delta, t)
          /\ out' = [before |-> setA, delta |-> delta, min_tag |-> t]
    /\ pc' = "merge_register_set"
    /\ UNCHANGED <<setRest, mapVars, regVars, foldVars, sync>>

OpRetainSet ==
    /\ pc = "init" /\ mapA = MapNew
    /\ \E t \in Tags :
          /\ setA' = SetRetain(setA, t)
          /\ out' = [before |-> setA, min_tag |-> t]
    /\ pc' = "retain_set"
    /\ UNCHANGED <<setRest, mapVars, regVars, foldVars, sync>>

NextOps ==
    \/ OpInsert \/ OpRemove \/ OpGet \/ OpContains \/ OpMergeRegister
    \/ OpRetain \/ StaleMerge
    \/ OpAdd \/ OpRemoveMember \/ OpGetMember \/ OpContainsMember
    \/ OpMergeRegisterSet \/ OpRetainSet

SpecOps == InitOps /\ [][NextOps]_vars

----------------------------------------------------------------------------
(* Claims checked under SpecOps *)

\* C12: immediately after Set.retain(t) or Map.retain(t) every entry still
\* stored is live (odd length) or a tombstone whose tag is >= t, and every
\* entry that was live before the call is still stored, unchanged.
C12_GcSafety ==
    /\ pc = "retain" =>
          /\ \A k \in DOMAIN mapA :
                IsOdd(mapA[k].length) \/ mapA[k].tag >= out.min_tag
          /\ \A k \in DOMAIN out.before :
                IsOdd(out.before[k].length) =>
                    k \in DOMAIN mapA /\ mapA[k] = out.before[k]
    /\ pc = "retain_set" =>
          /\ \A k \in DOMAIN setA :
                IsOdd(setA[k].length) \/ setA[k].tag >= out.min_tag
          /\ \A k \in DOMAIN out.before :
                IsOdd(out.before[k].length) =>
                    k \in DOMAIN setA /\ setA[k] = out.before[k]

\* a Map::retain(1) has purged the tombstone of "foo" (tag 0), and kept a live
\* "bar" whose tag is below the threshold
C12_Witness ==
    /\ pc = "retain" /\ out.min_tag = 1
    /\ DOMAIN out.before = {"foo", "bar"}
    /\ out.before["foo"].length = 2 /\ out.before["foo"].tag = 0
    /\ out.before["bar"].length = 3 /\ out.before["bar"].tag = 0
    /\ DOMAIN mapA = {"bar"}

\* C13: Set.retain(min_tag) and Map.retain(min_tag) delete an entry if and
\* only if its length is even and its tag is strictly less than min_tag; every
\* other entry, a tombstone with tag = min_tag included, is kept with item,
\* tag and length unchanged.
C13_ExactRetainRule ==
    /\ pc = "retain" =>
          \A k \in DOMAIN out.before :
              IF IsEven(out.before[k].length) /\ out.before[k].tag < out.min_tag
                THEN k \notin DOMAIN mapA
                ELSE k \in DOMAIN mapA /\ mapA[k] = out.before[k]
    /\ pc = "retain_set" =>
          \A k \in DOMAIN out.before :
              IF IsEven(out.before[k].length) /\ out.before[k].tag < out.min_tag
                THEN k \notin DOMAIN setA
                ELSE k \in DOMAIN setA /\ setA[k] = out.before[k]

\* C14 as stated: after retain(t) has removed the tombstone of a key
\* (tombstone tag < t), a later merge_register of an even-length delta for
\* that key carrying the old tag is ignored and creates no entry, even when
\* that merge call passes min_tag = 0.
C14_StaleTombstoneIgnored ==
    (pc = "stale" /\ out.delta.tag < out.horizon /\ out.min_tag = DefaultTag)
        => mapA = out.before

\* C14 as amended: the stale even-length delta is ignored (no entry created)
\* exactly when the merge_register call itself passes a min_tag greater than
\* the delta's tag; otherwise, min_tag = 0 included, the delta is stored again
\* as the key's entry, and the key stays invisible.
C14_StaleTombstoneNeedsMinTag ==
    pc = "stale" =>
        LET k == out.delta.item[1]
        IN  IF out.delta.tag < out.min_tag
              THEN mapA = out.before /\ k \notin DOMAIN mapA
              ELSE /\ k \in DOMAIN mapA
                   /\ mapA[k] = RegMake(out.delta.item[2], out.delta.tag,
                                        out.delta.length)
                   /\ MapGet(mapA, k) = None
                   /\ \A j \in DOMAIN out.before : mapA[j] = out.before[j]

\* retain(1) has purged the tombstone of "foo" with tag 0, and a
\* merge_register of that tombstone with min_tag = 0 has stored it again
C14_Witness ==
    /\ pc = "stale" /\ out.horizon = 1 /\ out.min_tag = 0
    /\ out.delta.item[1] = "foo" /\ out.delta.tag = 0 /\ out.delta.length = 2
    /\ "foo" \notin DOMAIN out.before
    /\ "foo" \in DOMAIN mapA /\ mapA["foo"].length = 2

\* C15: Set.merge_register(delta, min_tag) and Map.merge_register(delta,
\* min_tag) leave the whole stored state unchanged whenever delta.length is
\* even and delta.tag < min_tag; a delta of odd length is never filtered,
\* whatever its tag: its key is stored afterwards, as the delta itself when
\* the key was vacant, and with a length not below the delta's otherwise.
C15_GcFilterOnMerge ==
    /\ pc = "merge_register" =>
          LET k == out.delta.item[1]
          IN  /\ (IsEven(out.delta.length) /\ out.delta.tag < out.min_tag)
                    => mapA = out.before
              /\ IsOdd(out.delta.length) =>
                    /\ k \in DOMAIN mapA
                    /\ mapA[k].length >= out.delta.length
                    /\ k \notin DOMAIN out.before =>
                          mapA[k] = RegMake(out.delta.item[2], out.delta.tag,
                                            out.delta.length)
    /\ pc = "merge_register_set" =>
          LET k == out.delta.item
          IN  /\ (IsEven(out.delta.length) /\ out.delta.tag < out.min_tag)
                    => setA = out.before
              /\ IsOdd(out.delta.length) =>
                    /\ k \in DOMAIN setA
                    /\ setA[k].length >= out.delta.length
                    /\ setA[k].tag >= out.delta.tag
                    /\ k \notin DOMAIN out.before =>
                          setA[k] = SubRegister(out.delta.tag, out.delta.length)

\* a Map::merge_register with min_tag 1 has stored a live delta of tag 0 for
\* a vacant key
C15_Witness ==
    /\ pc = "merge_register" /\ out.min_tag = 1
    /\ out.delta.tag = 0 /\ out.delta.length = 3 /\ out.delta.item[1] = "foo"
    /\ DOMAIN out.before = {"bar"}
    /\ DOMAIN mapA = {"foo", "bar"} /\ mapA["foo"].length = 3

\* C16: Set.remove(member, tag) on a member whose entry has even length, and
\* Map.remove(key, tag) on a key whose register has even length, leave the
\* stored entry completely unchanged (length, tag and item) for every tag
\* argument, and Map.remove returns None.
C16_RemoveOfRemovedIsNoOp ==
    /\ (/\ pc = "remove"
        /\ out.key \in DOMAIN out.before
        /\ IsEven(out.before[out.key].length))
          => mapA = out.before /\ out.ret = None
    /\ (/\ pc = "remove_member"
        /\ out.key \in DOMAIN out.before
        /\ IsEven(out.before[out.key].length))
          => setA = out.before

\* C17: for a key or member with no stored entry, get returns None, contains
\* returns false, Set.remove does nothing and Map.remove returns None; none
\* of these calls creates an entry or changes any other entry.
C17_AbsenceIsNotAnError ==
    /\ (pc = "get" /\ out.key \notin DOMAIN out.before)
          => out.ret = None /\ mapA = out.before
    /\ (pc = "contains" /\ out.key \notin DOMAIN out.before)
          => out.ret = FALSE /\ mapA = out.before
    /\ (pc = "remove" /\ out.key \notin DOMAIN out.before)
          => out.ret = None /\ mapA = out.before
    /\ (pc = "get_member" /\ out.key \notin DOMAIN out.before)
          => out.ret = None /\ setA = out.before
    /\ (pc = "contains_member" /\ out.key \notin DOMAIN out.before)
          => out.ret = FALSE /\ setA = out.before
    /\ (pc = "remove_member" /\ out.key \notin DOMAIN out.before)
          => setA = out.before

\* a Map::remove of "foo" on a Map that stores only a live "bar"
C17_Witness ==
    /\ pc = "remove" /\ out.key = "foo" /\ out.tag = 1
    /\ DOMAIN out.before = {"bar"} /\ out.before["bar"].length = 1
    /\ out.ret = None
    /\ DOMAIN mapA = {"bar"}

\* C19: when no entry is stored for the key, Map.insert returns None; when an
\* entry is stored (live or tombstoned), insert returns the value that was
\* stored before the call together with the tag that was stored before the
\* call (the old tag, not the tag after the update).
C19_InsertReturnsOldValueAndTag ==
    pc = "insert" =>
        IF out.key \in DOMAIN out.before
          THEN out.ret = Some(<<out.before[out.key].item,
                                out.before[out.key].tag>>)
          ELSE out.ret = None

----------------------------------------------------------------------------
(* SpecReinsert: a key that is live with value v in a Map of any state is   *)
(* inserted again with the same value, up to MaxCalls times, as             *)
(* tests::test_add does.  out records the Map at the start, the key, the    *)
(* value, the tags supplied so far and the number of calls.                 *)

InsertSame ==
    /\ pc = "init"
    /\ \E k \in { j \in DOMAIN mapA : IsOdd(mapA[j].length) }, t \in Tags :
          /\ mapA' = MapInsert(mapA, k, mapA[k].item, t)
          /\ out' = [start |-> mapA, key |-> k, value |-> mapA[k].item,
                     tags |-> {t}, n |-> 1]
    /\ pc' = "reinsert"
    /\ UNCHANGED <<mapB, twinA, twinB, model, setVars, regVars, foldVars, sync>>

InsertSameAgain ==
    /\ pc = "reinsert" /\ out.n < MaxCalls
    /\ \E t \in Tags :
          /\ mapA' = MapInsert(mapA, out.key, out.value, t)
          /\ out' = [out EXCEPT !.tags = @ \cup {t}, !.n = @ + 1]
    /\ pc' = "reinsert"
    /\ UNCHANGED <<mapB, twinA, twinB, model, setVars, regVars, foldVars, sync>>

NextReinsert == InsertSame \/ InsertSameAgain

SpecReinsert == InitOps /\ [][NextReinsert]_vars

----------------------------------------------------------------------------
(* Claims checked under SpecReinsert *)

\* C18: when key k is live with value v, any number of further
\* Map.insert(k, v, t) calls with the same value leave the causal length of k
\* unchanged and k live with value v; only the tag may change, becoming the
\* maximum of the stored tag and the supplied tags.
C18_InsertIdempotent ==
    pc = "reinsert" =>
        LET k == out.key
        IN  /\ DOMAIN mapA = DOMAIN out.start
            /\ mapA[k].length = out.start[k].length
            /\ mapA[k].item = out.value
            /\ mapA[k].tag = MaxOf({out.start[k].tag} \cup out.tags)
            /\ MapGet(mapA, k) = Some(<<out.value, mapA[k].tag>>)
            /\ \A j \in DOMAIN mapA \ {k} : mapA[j] = out.start[j]

\* three inserts of the value of "foo", live at length 3 and tag 0, the last
\* of them with tag 1
C18_Witness ==
    /\ pc = "reinsert" /\ out.n = 3 /\ out.key = "foo" /\ out.tags = {0, 1}
    /\ out.start["foo"].length = 3 /\ out.start["foo"].tag = 0
    /\ mapA["foo"].length = 3 /\ mapA["foo"].tag = 1

----------------------------------------------------------------------------
(* Further claims checked under Spec *)

\* C20: across add/insert, remove, merge_register and merge on Set and Map,
\* the set of stored keys (live or tombstoned) never loses an element; remove
\* only changes the parity of the stored length and keeps the entry.
C20_OnlyRetainDestroys ==
    [][/\ pc' # "retain" =>
            /\ DOMAIN mapA \subseteq DOMAIN mapA'
            /\ DOMAIN setA \subseteq DOMAIN setA'
       /\ pc' = "remove" =>
            /\ \A k \in DOMAIN mapA :
                  /\ k \in DOMAIN mapA'
                  /\ mapA'[k].item = mapA[k].item
                  /\ mapA'[k].length \in {mapA[k].length, mapA[k].length + 1}
            /\ \A k \in DOMAIN setA :
                  /\ k \in DOMAIN setA'
                  /\ setA'[k].length \in {setA[k].length, setA[k].length + 1}
      ]_vars

\* a remove has left both keys stored, "foo" as a tombstone of length 4
C20_Witness ==
    /\ pc = "remove"
    /\ DOMAIN mapA = {"foo", "bar"}
    /\ mapA["foo"].length = 4 /\ mapA["bar"].length = 1
    /\ MapIter(mapA) = {<<"bar", mapA["bar"].item, mapA["bar"].tag>>}

----------------------------------------------------------------------------
(* SpecAllOps: the operations of SpecOps, and beside them one operation of  *)
(* a Register in any state it can hold, Map::merge of any Map into a Map    *)
(* that stores at most one key, and the call sequences of the tests:        *)
(* add, remove, add on a Set member; set and clear on two clones of one     *)
(* Register, merged back; retain followed by a merge of the snapshot taken  *)
(* before it.                                                               *)

InitAllOps ==
    /\ \/ mapA \in Ancestors /\ setA = SetNew /\ reg = RegDefault
       \/ mapA = MapNew /\ setA \in SetStates /\ reg = RegDefault
       \/ mapA = MapNew /\ setA = SetNew /\ reg \in Regs
    /\ mapB = MapNew /\ twinA = MapNew /\ twinB = MapNew /\ model = MapNew
    /\ setB = SetNew /\ twinSetA = SetNew /\ twinSetB = SetNew
    /\ ra = RegDefault /\ rb = RegDefault /\ rc = RegDefault
    /\ InitFold /\ InitCtl

RegOpNew ==
    /\ pc = "init" /\ mapA = MapNew /\ setA = SetNew
    /\ \E v \in Vals, t \in Tags :
          /\ reg' = RegNew(v, t)
          /\ out' = [before |-> reg, item |-> v, tag |-> t]
    /\ pc' = "reg_new"
    /\ UNCHANGED <<mapVars, setVars, ra, rb, rc, foldVars, sync>>

RegOpSet ==
    /\ pc = "init" /\ mapA = MapNew /\ setA = SetNew
    /\ \E v \in Vals, t \in Tags :
          /\ reg' = RegSet(reg, v, t)
          /\ out' = [before |-> reg, item |-> v, tag |-> t]
    /\ pc' = "reg_set"
    /\ UNCHANGED <<mapVars, setVars, ra, rb, rc, foldVars, sync>>

RegOpClear ==
    /\ pc = "init" /\ mapA = MapNew /\ setA = SetNew
    /\ \E t \in Tags :
          /\ reg' = RegClear(reg, t)
          /\ out' = [before |-> reg, tag |-> t]
    /\ pc' = "reg_clear"
    /\ UNCHANGED <<mapVars, setVars, ra, rb, rc, foldVars, sync>>

RegOpMerge ==
    /\ pc = "init" /\ mapA = MapNew /\ setA = SetNew
    /\ \E other \in Regs :
          /\ reg' = RegMerge(reg, other)
          /\ out' = [before |-> reg, other |-> other]
    /\ pc' = "reg_merge"
    /\ UNCHANGED <<mapVars, setVars, ra, rb, rc, foldVars, sync>>

\* tests::test_merge of register.rs from any live register: reg2 and reg3
\* are clones of reg; reg3.clear(t3); reg2.set(v, t2); then reg.merge(&reg2),
\* reg.merge(&reg3).  out also holds the merges in the other order and
\* reg2.merge(&reg3).
OverwriteVsClear ==
    /\ pc = "init" /\ mapA = MapNew /\ setA = SetNew
    /\ IsOdd(reg.length)
    /\ \E v \in Vals, t2 \in Tags, t3 \in Tags :
          LET reg2 == RegSet(reg, v, t2)
              reg3 == RegClear(reg, t3)
          IN  /\ reg' = RegMerge(RegMerge(reg, reg2), reg3)
              /\ out' = [before |-> reg, item |-> v,
                         reg2 |-> reg2, reg3 |-> reg3,
                         clearFirst |-> RegMerge(RegMerge(reg, reg3), reg2),
                         intoReg2 |-> RegMerge(reg2, reg3)]
    /\ pc' = "overwrite_vs_clear"
    /\ UNCHANGED <<mapVars, setVars, ra, rb, rc, foldVars, sync>>

\* self.merge(&other, min_tag) for a Map that stores at most one key
OpMerge ==
    /\ pc = "init" /\ setA = SetNew
    /\ Cardinality(DOMAIN mapA) <= 1
    /\ \E other \in Ancestors, t \in Tags :
          /\ mapA' = MapMerge(mapA, other, t)
          /\ out' = [before |-> mapA, other |-> other, min_tag |-> t]
    /\ pc' = "merge"
    /\ UNCHANGED <<mapB, twinA, twinB, model, setVars, regVars, foldVars, sync>>

OpMergeSet ==
    /\ pc = "init" /\ mapA = MapNew
    /\ \E other \in SetStates, t \in Tags :
          /\ setA' = SetMerge(setA, other, t)
          /\ out' = [before |-> setA, other |-> other, min_tag |-> t]
    /\ pc' = "merge_set"
    /\ UNCHANGED <<setRest, mapVars, regVars, foldVars, sync>>

\* after s.retain(t): s.merge(&snapshot, t), the snapshot being the clone of
\* s taken before the retain
MergeSnapshot ==
    /\ pc = "retain"
    /\ mapA' = MapMerge(mapA, out.before, out.min_tag)
    /\ out' = [snapshot |-> out.before, min_tag |-> out.min_tag,
               retained |-> mapA]
    /\ pc' = "retain_merge"
    /\ UNCHANGED <<mapB, twinA, twinB, model, setVars, regVars, foldVars, sync>>

MergeSnapshotSet ==
    /\ pc = "retain_set"
    /\ setA' = SetMerge(setA, out.before, out.min_tag)
    /\ out' = [snapshot |-> out.before, min_tag |-> out.min_tag,
               retained |-> setA]
    /\ pc' = "retain_merge_set"
    /\ UNCHANGED <<setRest, mapVars, regVars, foldVars, sync>>

\* after an add: remove of the same member, as tests::test_remove of set.rs
ThenRemoveMember ==
    /\ pc = "add"
    /\ \E t \in Tags : setA' = SetRemove(setA, out.key, t)
    /\ out' = [start |-> out.before, key |-> out.key]
    /\ pc' = "add_remove"
    /\ UNCHANGED <<setRest, mapVars, regVars, foldVars, sync>>

\* after add and remove: add of the same member again
ThenAddMember ==
    /\ pc = "add_remove"
    /\ \E t \in Tags : setA' = SetAdd(setA, out.key, t)
    /\ out' = out
    /\ pc' = "add_remove_add"
    /\ UNCHANGED <<setRest, mapVars, regVars, foldVars, sync>>

NextAllOps ==
    \/ NextOps
    \/ RegOpNew \/ RegOpSet \/ RegOpClear \/ RegOpMerge \/ OverwriteVsClear
    \/ OpMerge \/ OpMergeSet \/ MergeSnapshot \/ MergeSnapshotSet
    \/ ThenRemoveMember \/ ThenAddMember

SpecAllOps == InitAllOps /\ [][NextAllOps]_vars

----------------------------------------------------------------------------
(* Claims checked under SpecAllOps *)

\* the delta of a merge_register call is dropped by the min_tag filter
Filtered(delta, min_tag) == IsEven(delta.length) /\ delta.tag < min_tag

\* C21: for every key or member that stays stored, its causal length never
\* decreases under Register set/clear/merge, Set add/remove/merge_register
\* and Map insert/remove/merge_register (nor under merge of whole Sets and
\* Maps), and after merging a delta that the min_tag filter lets through the
\* stored length is the maximum of the previous stored length and the delta's
\* length.
C21_LengthMonotone ==
    /\ pc \in {"insert", "remove", "merge_register", "merge"} =>
          \A k \in DOMAIN out.before :
              k \in DOMAIN mapA /\ mapA[k].length >= out.before[k].length
    /\ (pc = "merge_register" /\ ~Filtered(out.delta, out.min_tag)) =>
          LET k == out.delta.item[1]
          IN  mapA[k].length =
                 IF k \in DOMAIN out.before
                   THEN Max(out.before[k].length, out.delta.length)
                   ELSE out.delta.length
    /\ pc \in {"add", "remove_member", "merge_register_set", "merge_set"} =>
          \A k \in DOMAIN out.before :
              k \in DOMAIN setA /\ setA[k].length >= out.before[k].length
    /\ (pc = "merge_register_set" /\ ~Filtered(out.delta, out.min_tag)) =>
          LET k == out.delta.item
          IN  setA[k].length =
                 IF k \in DOMAIN out.before
                   THEN Max(out.before[k].length, out.delta.length)
                   ELSE out.delta.length
    /\ pc \in {"reg_set", "reg_clear", "reg_merge"} =>
          reg.length >= out.before.length
    /\ pc = "reg_merge" =>
          reg.length = Max(out.before.length, out.other.length)

\* a Map::merge_register of a shorter delta with a higher tag into a live
\* key of length 3 has left the length at 3
C21_Witness ==
    /\ pc = "merge_register" /\ out.min_tag = 0
    /\ out.delta.item[1] = "foo" /\ out.delta.length = 2 /\ out.delta.tag = 1
    /\ "foo" \in DOMAIN out.before
    /\ out.before["foo"].length = 3 /\ out.before["foo"].tag = 0
    /\ mapA["foo"].length = 3

\* C22: Register::new(item, tag) has length 1 and is live; set(item, tag)
\* leaves the register live holding the given item, adding 2 to the length if
\* it was odd and 1 if it was even, with tag = max(old tag, tag); clear(tag)
\* adds 1 to the length and sets tag = max(old tag, tag) if the length was
\* odd, and changes nothing (the tag included) if it was even, so the register
\* is always empty after clear.
C22_RegisterSetClear ==
    /\ pc = "reg_new" =>
          /\ reg.length = 1
          /\ RegGet(reg) = Some(<<out.item, out.tag>>)
    /\ pc = "reg_set" =>
          /\ RegGet(reg) = Some(<<out.item, Max(out.before.tag, out.tag)>>)
          /\ reg.length = out.before.length
                            + (IF IsOdd(out.before.length) THEN 2 ELSE 1)
    /\ pc = "reg_clear" =>
          /\ RegGet(reg) = None
          /\ IF IsOdd(out.before.length)
               THEN /\ reg.length = out.before.length + 1
                    /\ reg.tag = Max(out.before.tag, out.tag)
                    /\ reg.item = out.before.item
               ELSE reg = out.before

\* a clear with tag 1 of an empty register of length 2 and tag 0
C22_Witness ==
    /\ pc = "reg_clear" /\ out.tag = 1
    /\ out.before.length = 2 /\ out.before.tag = 0
    /\ reg = out.before

\* C23: Map.insert(k, v', t) on a live key whose stored value differs from v'
\* increases the causal length by exactly 2, stores v' and sets
\* tag = max(old tag, t); on a tombstoned key it increases the length by
\* exactly 1 and stores the new value; on an absent key it creates an entry
\* with length 1, the given value and the given tag.  In all three cases the
\* key is live with the inserted value afterwards.
C23_OverwriteNewGeneration ==
    pc = "insert" =>
        LET k == out.key
            stored == k \in DOMAIN out.before
        IN  /\ (stored /\ IsOdd(out.before[k].length)
                       /\ out.before[k].item # out.value) =>
                  /\ mapA[k].length = out.before[k].length + 2
                  /\ mapA[k].item = out.value
                  /\ mapA[k].tag = Max(out.before[k].tag, out.tag)
                  /\ GetValue(mapA, k) = Some(out.value)
            /\ (stored /\ IsEven(out.before[k].length)) =>
                  /\ mapA[k].length = out.before[k].length + 1
                  /\ mapA[k].item = out.value
                  /\ GetValue(mapA, k) = Some(out.value)
            /\ ~stored =>
                  /\ mapA[k] = RegMake(out.value, out.tag, 1)
                  /\ GetValue(mapA, k) = Some(out.value)

\* an insert of value 1 with tag 0 over a live "foo" of value 0, tag 1 and
\* length 1
C23_Witness ==
    /\ pc = "insert" /\ out.key = "foo" /\ out.value = 1 /\ out.tag = 0
    /\ "foo" \in DOMAIN out.before
    /\ out.before["foo"] = RegMake(0, 1, 1)
    /\ mapA["foo"] = RegMake(1, 1, 3)

\* C24: Set.add(member, tag) on an absent member stores (tag, length 1); on a
\* tombstoned member it increases the length by 1; on a live member it leaves
\* the length unchanged; in every case the stored tag becomes
\* max(existing tag, tag) and the member is live afterwards.
\* remove(member, tag) on a live member increases the length by 1 and sets the
\* tag to max(existing tag, tag), so after add, remove, add of a member that
\* had no entry the entry has length 3.
C24_SetAddRemove ==
    /\ pc = "add" =>
          LET k == out.key
          IN  /\ SetContains(setA, k)
              /\ IF k \notin DOMAIN out.before
                   THEN setA[k] = SubRegister(out.tag, 1)
                   ELSE /\ setA[k].tag = Max(out.before[k].tag, out.tag)
                        /\ setA[k].length =
                              IF IsEven(out.before[k].length)
                                THEN out.before[k].length + 1
                                ELSE out.before[k].length
              /\ \A j \in DOMAIN out.before \ {k} : setA[j] = out.before[j]
    /\ (/\ pc = "remove_member"
        /\ out.key \in DOMAIN out.before
        /\ IsOdd(out.before[out.key].length)) =>
          /\ setA[out.key].length = out.before[out.key].length + 1
          /\ setA[out.key].tag = Max(out.before[out.key].tag, out.tag)
          /\ ~SetContains(setA, out.key)
    /\ (pc = "add_remove_add" /\ out.key \notin DOMAIN out.start) =>
          setA[out.key].length = 3 /\ SetContains(setA, out.key)

\* add, remove, add of "foo", which had no entry, beside a tombstone of "bar"
C24_Witness ==
    /\ pc = "add_remove_add" /\ out.key = "foo"
    /\ DOMAIN out.start = {"bar"} /\ out.start["bar"].length = 2
    /\ setA["foo"].length = 3 /\ setA["foo"].tag = 1
    /\ setA["bar"] = out.start["bar"]

\* C25: from a common live register r of odd length L, if one copy performs
\* set(v, t) and another copy performs clear(t'), then merging both copies
\* into r, in either order, yields a register equal to the overwriting copy:
\* live, holding v, with length L + 2; and merging the cleared copy into the
\* overwriting copy changes nothing.
C25_OverwriteOutranksRemove ==
    pc = "overwrite_vs_clear" =>
        /\ reg = out.reg2
        /\ out.clearFirst = out.reg2
        /\ RegGet(reg) = Some(<<out.item, out.reg2.tag>>)
        /\ reg.length = out.before.length + 2
        /\ out.intoReg2 = out.reg2

\* the clear carried a higher tag than the set, and the set a new item
C25_Witness ==
    /\ pc = "overwrite_vs_clear"
    /\ out.before.length = 3 /\ out.before.tag = 0
    /\ out.reg3.tag = 1 /\ out.reg2.tag = 0
    /\ out.item # out.before.item
    /\ reg.item = out.item /\ reg.length = 5

\* C26: when other.length is strictly greater than self.length and even,
\* Register.merge changes only self.length (to other.length) and leaves
\* self.item and self.tag unchanged; when other.length is strictly greater and
\* odd, self becomes exactly equal to other; when other.length is strictly
\* smaller, self is unchanged.
C26_MergeAsymmetry ==
    pc = "reg_merge" =>
        /\ (out.other.length > out.before.length /\ IsEven(out.other.length))
              => reg = [out.before EXCEPT !.length = out.other.length]
        /\ (out.other.length > out.before.length /\ IsOdd(out.other.length))
              => reg = out.other
        /\ out.other.length < out.before.length => reg = out.before

\* a longer, even other with a higher tag and another item was merged into a
\* live register, which kept its item and tag
C26_Witness ==
    /\ pc = "reg_merge"
    /\ out.before = RegMake(0, 0, 1)
    /\ out.other = RegMake(1, 1, 2)
    /\ reg = RegMake(0, 0, 2)

\* C28 as stated: for every Map key that stays stored, its tag after any
\* insert, remove, merge_register or merge is greater than or equal to its tag
\* before the operation.
C28_MapTagNeverDecreases ==
    pc \in {"insert", "remove", "merge_register", "merge"} =>
        \A k \in (DOMAIN out.before) \cap (DOMAIN mapA) :
            mapA[k].tag >= out.before[k].tag

\* the register a merge delivers for key k is longer than the stored one and
\* live, so that Register::merge adopts its item and tag
Adopted(before, k, d, min_tag) ==
    /\ ~Filtered(d, min_tag)
    /\ d.length > before[k].length
    /\ IsOdd(d.length)

\* C28 as amended: the stored tag of a Map key never decreases under insert
\* and remove; under merge_register and merge it never decreases either,
\* except when the delta for that key has a strictly greater odd length: then
\* the stored tag becomes the delta's tag, whatever the stored tag was.  The
\* tag of a Set entry never decreases under add, remove, merge_register and
\* merge.
C28_MapTagDecreasesOnlyOnAdoption ==
    /\ pc \in {"insert", "remove"} =>
          \A k \in DOMAIN out.before : mapA[k].tag >= out.before[k].tag
    /\ pc = "merge_register" =>
          \A k \in DOMAIN out.before :
              IF k = out.delta.item[1]
                   /\ Adopted(out.before, k, out.delta, out.min_tag)
                THEN mapA[k].tag = out.delta.tag
                ELSE mapA[k].tag >= out.before[k].tag
    /\ pc = "merge" =>
          \A k \in DOMAIN out.before :
              IF k \in DOMAIN out.other
                   /\ Adopted(out.before, k, out.other[k], out.min_tag)
                THEN mapA[k].tag = out.other[k].tag
                ELSE mapA[k].tag >= out.before[k].tag
    /\ pc \in {"add", "remove_member", "merge_register_set", "merge_set"} =>
          \A k \in DOMAIN out.before : setA[k].tag >= out.before[k].tag

\* a merge_register of a live delta of length 3 and tag 0 into a live "foo"
\* of length 1 and tag 1 has lowered the stored tag to 0
C28_Witness ==
    /\ pc = "merge_register"
    /\ out.delta = RegMake(<<"foo", 1>>, 0, 3)
    /\ "foo" \in DOMAIN out.before
    /\ out.before["foo"] = RegMake(0, 1, 1)
    /\ mapA["foo"] = RegMake(1, 0, 3)

\* C29: for any Set or Map s and tag t, taking a snapshot of s, calling
\* s.retain(t) and then s.merge(snapshot, t) leaves s exactly as it was right
\* after retain(t): no tombstone deleted by retain(t) is re-created by a merge
\* that uses the same min_tag t.
C29_RetainMergeSameHorizon ==
    /\ pc = "retain_merge" => mapA = out.retained
    /\ pc = "retain_merge_set" => setA = out.retained

----------------------------------------------------------------------------
(* Further claims checked under SpecFold *)

\* C27: folding the same finite list of deltas into an empty Map with
\* merge_register(_, 0) in any two permutations yields Maps that are equal
\* under Map's ==: the same stored keys, and for each key the same item, tag
\* and length, tombstones included.
C27_MapFoldOrderIndependentStored ==
    (pc = "foldmap" /\ minTag = DefaultTag) => out.maps = {mapA}

=============================================================================
